---- MODULE Spec2Model ----
(***************************************************************************)
(* State-machine model of the course-generation job runner                 *)
(* (src/src/lib/job-runner.ts): the JobRunner poll loop, processNextJob   *)
(* and the five-stage executeGenerateCourse pipeline, together with the    *)
(* Job / JobEvent / Course tables it writes through prisma.                *)
(*                                                                         *)
(* Every poll loop started by start() is a process with its own position   *)
(* (pc) in the code; one action is one awaited step of that code.  The     *)
(* providers and the database are the environment: a provider call returns *)
(* a schema-valid result or throws, a prisma write succeeds or throws.     *)
(***************************************************************************)
EXTENDS Integers, Sequences, FiniteSets, TLC

(***************************************************************************)
(* Bounds of the model.                                                    *)
(***************************************************************************)
MaxJobs == 2        \* jobs submitted in one behaviour
MaxLoops == 2       \* poll loops launched in one behaviour
MaxLLMFaults == 2   \* provider calls that throw (a provider that is not down)
MaxDbFaults == 1    \* prisma writes that throw
MaxSwitches == 1    \* preemptions of a loop that is in the middle of a job
MaxClock == 1       \* ticks of the createdAt clock
MaxGets == 2        \* getJobRunner() calls in one behaviour

(***************************************************************************)
(* Program constants.                                                      *)
(***************************************************************************)
NumModules == 5         \* CourseSkeletonSchema: modules .length(5)
MinSteps == 3           \* ModuleLessonsSchema: steps .min(3)
MaxSteps == 10          \* ModuleLessonsSchema: steps .max(10)
MinQuestions == 5       \* ModuleQuizSchema: questions .min(5)
MaxQuestions == 15      \* ModuleQuizSchema: questions .max(15)
MaxVideos == 3          \* searchVideos(query, 3)
FallbackLessons == 4    \* for (let j = 1; j <= 4; j++)
FallbackQuestions == 3  \* for (let j = 1; j <= 3; j++)

VARIABLES
    isRunning,  \* JobRunner.isRunning
    loops,      \* the poll() invocations: position and locals of each
    jobs,       \* the Job table, in insertion order (the index is the job id)
    courses,    \* the Course of each job, with its modules and their children
    events,     \* the JobEvent rows of each job, in creation order
    clock,      \* the wall clock that stamps Job.createdAt
    provider,   \* environment: provider configuration and response shape
    budget,     \* environment: what may still happen in this behaviour
    sched,      \* scheduler: the loop that took the last step (0: none yet)
                \* and the preemptions left
    jobRunnerInstance, \* the module variable jobRunnerInstance (0: null,
                \* else the number of the JobRunner object it holds)
    returned,   \* history: what each getJobRunner() call has returned
    idempotencyKeys, \* the IdempotencyKey table: the job of each key
    replies,    \* history: the response to each submission, with its request
    calls,      \* history: the provider calls made for each job, with outcome
    dbFaulted,  \* history: the jobs during whose run a prisma write threw
    runs        \* history: executeGenerateCourse invocations per job

vars == <<isRunning, loops, jobs, courses, events, clock, provider, budget,
          sched, jobRunnerInstance, returned, idempotencyKeys, replies, calls,
          dbFaulted, runs>>

\* What only the submission route writes.
intake == <<idempotencyKeys, replies>>

\* What only getJobRunner writes.
singleton == <<jobRunnerInstance, returned>>

LoopIds == 1..MaxLoops
JobIds == 1..Len(jobs)

Terminal == {"succeeded", "failed"}

(***************************************************************************)
(* ErrorCode (schemas): the stable error codes.                            *)
(***************************************************************************)
ErrorCode ==
    {"VALIDATION_ERROR", "LLM_SCHEMA_INVALID", "LLM_PROVIDER_FAILURE",
     "YOUTUBE_PROVIDER_FAILURE", "DB_WRITE_FAILURE", "JOB_RUNNER_FAILURE",
     "IDEMPOTENCY_KEY_CONFLICT", "JOB_NOT_FOUND", "COURSE_NOT_FOUND"}

NoError == [code |-> "", message |-> ""]

\* What a throwing provider call throws: an Error carrying one of the two
\* content-provider codes.
LLMErrors ==
    {[code |-> "LLM_PROVIDER_FAILURE", message |-> "provider failed"],
     [code |-> "LLM_SCHEMA_INVALID", message |-> "schema invalid"]}

YouTubeError == [code |-> "YOUTUBE_PROVIDER_FAILURE", message |-> "search failed"]

\* What a throwing prisma write throws: a PrismaClientKnownRequestError
\* carries prisma's own code, an unknown request error carries none.
DbErrors ==
    {[code |-> "P2034", message |-> "write conflict"],
     [code |-> "", message |-> "database is locked"]}

(***************************************************************************)
(* The shapes a provider may answer with (both ends of each schema range). *)
(***************************************************************************)
ResponseProfiles ==
    {[steps |-> MinSteps, questions |-> MinQuestions, videos |-> 0],
     [steps |-> MaxSteps, questions |-> MaxQuestions, videos |-> MaxVideos]}

(***************************************************************************)
(* Rows of the tables.                                                     *)
(***************************************************************************)
\* prisma.job: what the submission route inserts (status queued, progress 0).
NewJob(type, createdAt) ==
    [type |-> type, status |-> "queued", progressPercent |-> 0,
     currentStage |-> "", errorCode |-> "", errorMessage |-> "",
     createdAt |-> createdAt]

\* prisma.course: the draft course created with the job.
NewCourse(timePerDay) ==
    [status |-> "draft", timePerDay |-> timePerDay, modules |-> <<>>]

\* prisma.module.create (Stage 1): a module with no children yet.
NewModule(order) ==
    [order |-> order, lessons |-> <<>>, quizzes |-> <<>>, resources |-> <<>>]

LessonTypes == <<"learn", "practice", "apply">>

\* One step of a generateLessons answer: LessonStepSchema admits it.
GeneratedLesson(k) ==
    [order |-> k, type |-> LessonTypes[((k - 1) % 3) + 1], estimatedMinutes |-> 15]

\* The lesson rows of one generateLessons answer with n steps.
GeneratedLessons(n) == [k \in 1..n |-> GeneratedLesson(k)]

\* The fallback lesson j of a module: type and minutes as the catch block
\* computes them.
FallbackLesson(j, timePerDay) ==
    [order |-> j,
     type |-> IF j = 4 THEN "apply" ELSE IF j % 2 = 0 THEN "practice" ELSE "learn",
     estimatedMinutes |-> timePerDay \div 4]

\* What a model may answer for one question of a quiz, well-formed or not
\* (options that are left out are the empty list).
QuestionShapes ==
    <<[type |-> "mcq", options |-> <<"A", "B">>, answerKey |-> "A"],
      [type |-> "mcq", options |-> <<"A">>, answerKey |-> "A"],
      [type |-> "short", options |-> <<>>, answerKey |-> "an answer"],
      [type |-> "mcq", options |-> <<"A", "B", "C">>, answerKey |-> "D"],
      [type |-> "mcq", options |-> <<>>, answerKey |-> "A"],
      [type |-> "code", options |-> <<>>, answerKey |-> "return 1"],
      [type |-> "mcq", options |-> <<"A", "B", "C", "D">>, answerKey |-> "D"]>>

\* QuizQuestionSchema without its .refine: the type alone is looked at.
QuizQuestionSchemaUnrefined(q) ==
    q.type \in {"mcq", "short", "code"}

\* QuizQuestionSchema: the enum of types and the .refine (an mcq has at
\* least 2 options and its answerKey is one of them).
QuizQuestionSchema(q) ==
    /\ q.type \in {"mcq", "short", "code"}
    /\ q.type = "mcq" =>
          /\ Len(q.options) >= 2
          /\ \E i \in 1..Len(q.options) : q.options[i] = q.answerKey

\* The questions a generateQuiz answer is made of: the provider validates
\* its result, so those the schema admits.
AcceptedQuestions == SelectSeq(QuestionShapes, QuizQuestionSchema)

\* prisma.quizQuestion.create for question k of a generateQuiz answer: type,
\* options and answerKey as answered, order j + 1.
GeneratedQuestion(k) ==
    LET q == AcceptedQuestions[((k - 1) % Len(AcceptedQuestions)) + 1]
    IN [order |-> k, type |-> q.type, options |-> q.options,
        answerKey |-> q.answerKey]

\* The fallback question j of a module.
FallbackQuestion(j) ==
    [order |-> j, type |-> "mcq",
     options |-> <<"Option A", "Option B", "Option C", "Option D">>,
     answerKey |-> "Option A"]

\* prisma.quiz.create followed by the quizQuestion.create of the given rows.
NewQuiz(total, questions) ==
    [totalQuestions |-> total, questions |-> questions]

\* prisma.resource.create for video j of a search answer.
NewResource(j) == [order |-> j, provider |-> "youtube"]

\* prisma.jobEvent.create, as logEvent writes it.
Event(stage, level, message) ==
    [stage |-> stage, level |-> level, message |-> message]

(***************************************************************************)
(* A poll loop: its position and its locals.                               *)
(*   job  : the job read by findFirst (0: none)                            *)
(*   i    : the 1-based index of the for loop it is in                     *)
(*   mods : the modules fetched after Stage 1 (indexes into the course)    *)
(*   err  : the exception in flight or caught                              *)
(***************************************************************************)
NoLoop == [pc |-> "none", job |-> 0, i |-> 0, mods |-> <<>>, err |-> NoError]

\* The pcs at which a for loop starts with its index at the first element.
LoopHeads == {"s1save", "s2mp", "s3mp", "s4mp"}

\* A loop that leaves processNextJob drops its locals.
Leave(loop) == IF loop.pc = "sleep" THEN [NoLoop EXCEPT !.pc = "sleep"] ELSE loop

\* The loop l continues at pc next; a caught exception is out of scope once
\* its handler has used it (only logFailed still reads it).
Goto(l, next) ==
    [loops EXCEPT ![l] =
        Leave([@ EXCEPT !.pc = next,
                        !.i = IF next \in LoopHeads THEN 1 ELSE @,
                        !.err = IF next = "logFailed" THEN @ ELSE NoError])]

\* The loop l continues at handler with e thrown.
Raise(l, e, handler) ==
    [loops EXCEPT ![l] = Leave([@ EXCEPT !.pc = handler, !.err = e])]

\* End of one iteration of a per-module for loop: the next module, or
\* the statement after the loop.
Advance(l, head, after) ==
    IF loops[l].i < Len(loops[l].mods)
    THEN [loops EXCEPT ![l] = [@ EXCEPT !.pc = head, !.i = @ + 1, !.err = NoError]]
    ELSE [loops EXCEPT ![l] = [@ EXCEPT !.pc = after, !.err = NoError]]

(***************************************************************************)
(* The environment.                                                        *)
(*   provider.llmKey / ytKey : an API key is configured (else the mock)   *)
(*   provider.down : the operations of the real providers that throw on   *)
(*                   every call                                            *)
(*   provider.steps / questions / videos : the size of a valid answer     *)
(*   budget : jobs still to submit, loops still to launch, provider calls *)
(*            and prisma writes that may still throw, the timePerDay      *)
(*            values and topic lengths a submission may carry, whether a  *)
(*            submission may carry a key used before, whether providers   *)
(*            that are down may recover, and the getJobRunner() calls     *)
(*            still to come                                                *)
(*   backlog : the types of the jobs that are queued in the Job table     *)
(*             when the process starts                                     *)
(*   switches : the preemptions the scheduler may still make              *)
(***************************************************************************)
Operations == {"skeleton", "lessons", "quiz", "videos"}

\* Submissions, restarts and several loops side by side, with the mock
\* providers (no API key) and a database that does not fail.
DispatchScenarios ==
    {[provider |-> [llmKey |-> FALSE, ytKey |-> FALSE, down |-> {},
                    steps |-> MinSteps, questions |-> MinQuestions,
                    videos |-> MaxVideos],
      budget |-> [jobs |-> MaxJobs, loops |-> MaxLoops, llm |-> 0, db |-> 0,
                  times |-> {20}, recover |-> FALSE,
                  topics |-> {10}, reuse |-> FALSE, gets |-> 1],
      backlog |-> <<>>, switches |-> MaxSwitches]}

\* One job and one loop, with real providers of which some calls throw and
\* a database of which some writes throw.
FlakyScenarios ==
    {[provider |-> [llmKey |-> TRUE, ytKey |-> TRUE, down |-> {},
                    steps |-> r.steps, questions |-> r.questions,
                    videos |-> r.videos],
      budget |-> [jobs |-> 1, loops |-> 1, llm |-> f[1], db |-> f[2],
                  times |-> {20}, recover |-> FALSE,
                  topics |-> {10}, reuse |-> FALSE, gets |-> 1],
      backlog |-> <<>>, switches |-> 0] :
        f \in {<<MaxLLMFaults, 0>>, <<MaxLLMFaults - 1, MaxDbFaults>>},
        r \in ResponseProfiles}

\* One job and one loop, with real providers of which some operations are
\* down for good.
DownScenarios ==
    {[provider |-> [llmKey |-> TRUE, ytKey |-> TRUE, down |-> d,
                    steps |-> r.steps, questions |-> r.questions,
                    videos |-> r.videos],
      budget |-> [jobs |-> 1, loops |-> 1, llm |-> 0, db |-> 0,
                  times |-> {5, 20, 480}, recover |-> FALSE,
                  topics |-> {10}, reuse |-> FALSE, gets |-> 1],
      backlog |-> <<>>, switches |-> 0] :
        d \in {Operations, {"lessons", "quiz", "videos"}, {"videos"}},
        r \in ResponseProfiles}

\* One job and several loops racing for it, with the mock providers.
RaceScenarios ==
    {[provider |-> [llmKey |-> FALSE, ytKey |-> FALSE, down |-> {},
                    steps |-> MinSteps, questions |-> MinQuestions,
                    videos |-> MaxVideos],
      budget |-> [jobs |-> 1, loops |-> MaxLoops, llm |-> 0, db |-> 0,
                  times |-> {20}, recover |-> FALSE,
                  topics |-> {10}, reuse |-> FALSE, gets |-> 1],
      backlog |-> <<>>, switches |-> MaxSwitches + 1]}

\* An outage: every provider operation is down and some database writes
\* throw; several jobs and one loop.
OutageScenarios ==
    {[provider |-> [llmKey |-> TRUE, ytKey |-> TRUE, down |-> Operations,
                    steps |-> MinSteps, questions |-> MinQuestions,
                    videos |-> 0],
      budget |-> [jobs |-> MaxJobs, loops |-> 1, llm |-> 0,
                  db |-> MaxDbFaults, times |-> {20}, recover |-> FALSE,
                  topics |-> {10}, reuse |-> FALSE, gets |-> 1],
      backlog |-> <<>>, switches |-> 0]}

\* An outage that ends: every provider operation is down until the
\* providers recover; one job and several loops.
RecoveryScenarios ==
    {[provider |-> [llmKey |-> TRUE, ytKey |-> TRUE, down |-> Operations,
                    steps |-> MinSteps, questions |-> MinQuestions,
                    videos |-> 0],
      budget |-> [jobs |-> 1, loops |-> MaxLoops, llm |-> 0, db |-> 0,
                  times |-> {20}, recover |-> TRUE,
                  topics |-> {10}, reuse |-> FALSE, gets |-> 1],
      backlog |-> <<>>, switches |-> MaxSwitches]}

\* Submissions only: requests inside and outside the ranges of the request
\* schema, with fresh keys and with keys used before; the runner is not
\* started.
IntakeScenarios ==
    {[provider |-> [llmKey |-> FALSE, ytKey |-> FALSE, down |-> {},
                    steps |-> MinSteps, questions |-> MinQuestions,
                    videos |-> MaxVideos],
      budget |-> [jobs |-> MaxJobs, loops |-> 0, llm |-> 0, db |-> 0,
                  times |-> {4, 5, 480, 481}, recover |-> FALSE,
                  topics |-> {2, 3, 200, 201}, reuse |-> TRUE, gets |-> 1],
      backlog |-> <<>>, switches |-> 0]}

\* Several getJobRunner() calls (one per importing route), with one job and
\* the mock providers.
SingletonScenarios ==
    {[provider |-> [llmKey |-> FALSE, ytKey |-> FALSE, down |-> {},
                    steps |-> MinSteps, questions |-> MinQuestions,
                    videos |-> MaxVideos],
      budget |-> [jobs |-> 1, loops |-> MaxLoops, llm |-> 0, db |-> 0,
                  times |-> {20}, recover |-> FALSE,
                  topics |-> {10}, reuse |-> FALSE, gets |-> MaxGets],
      backlog |-> <<>>, switches |-> 0]}

\* A job of a type other than GENERATE_COURSE is queued in the Job table
\* when the process starts; several loops, and a database of which some
\* writes throw.
ForeignScenarios ==
    {[provider |-> [llmKey |-> FALSE, ytKey |-> FALSE, down |-> {},
                    steps |-> MinSteps, questions |-> MinQuestions,
                    videos |-> MaxVideos],
      budget |-> [jobs |-> 0, loops |-> MaxLoops, llm |-> 0,
                  db |-> MaxDbFaults, times |-> {20}, recover |-> FALSE,
                  topics |-> {10}, reuse |-> FALSE, gets |-> 1],
      backlog |-> <<"OTHER">>, switches |-> MaxSwitches]}

Scenarios ==
    DispatchScenarios \cup FlakyScenarios \cup DownScenarios
        \cup RaceScenarios \cup OutageScenarios \cup RecoveryScenarios
        \cup IntakeScenarios \cup SingletonScenarios \cup ForeignScenarios

\* createLLMProvider(): the real provider when a key is configured, else the
\* deterministic mock.
LLMIsMock == ~provider.llmKey

\* A call of operation op on createLLMProvider()'s provider may throw / may
\* return: the mock never throws.
LLMMayThrow(op) == provider.llmKey /\ (op \in provider.down \/ budget.llm > 0)
LLMMayReturn(op) == ~(provider.llmKey /\ op \in provider.down)

\* A searchVideos call on createYouTubeProvider()'s provider may throw / may
\* return.
YouTubeMayThrow == provider.ytKey /\ ("videos" \in provider.down \/ budget.llm > 0)
YouTubeMayReturn == ~(provider.ytKey /\ "videos" \in provider.down)

\* The budget after a call of operation op threw.
AfterThrow(op) == IF op \in provider.down THEN budget ELSE [budget EXCEPT !.llm = @ - 1]

\* The record of one provider call in the history.
Call(op, module, ok) == [op |-> op, module |-> module, ok |-> ok, mock |-> LLMIsMock]

(***************************************************************************)
(* Initial state: the module is loaded (jobRunnerInstance is null, no      *)
(* JobRunner is running) and the tables hold the backlog: each of its jobs *)
(* queued, with its draft course and its idempotency key.                  *)
(***************************************************************************)
Init ==
    /\ isRunning = FALSE
    /\ jobRunnerInstance = 0
    /\ returned = <<>>
    /\ loops = [l \in LoopIds |-> NoLoop]
    /\ clock = 0
    /\ \E s \in Scenarios :
          /\ provider = s.provider
          /\ budget = s.budget
          /\ sched = [current |-> 0, switches |-> s.switches]
          /\ jobs = [k \in 1..Len(s.backlog) |-> NewJob(s.backlog[k], 0)]
          /\ courses = [k \in 1..Len(s.backlog) |-> NewCourse(20)]
          /\ events = [k \in 1..Len(s.backlog) |-> <<>>]
          /\ idempotencyKeys = [k \in 1..Len(s.backlog) |-> k]
          /\ calls = [k \in 1..Len(s.backlog) |-> <<>>]
          /\ runs = [k \in 1..Len(s.backlog) |-> 0]
    /\ replies = <<>>
    /\ dbFaulted = {}

(***************************************************************************)
(* Submission (POST /api/path/generate).  A request is modelled by what    *)
(* the route looks at: the length of its topic, its timePerDay and its     *)
(* idempotencyKey (level, timePerWeek and deadline are defaulted or        *)
(* optional).  Keys are numbered in the order of their first use.          *)
(***************************************************************************)
Request(topic, timePerDay, key) ==
    [topic |-> topic, timePerDay |-> timePerDay, idempotencyKey |-> key]

\* The request schema with timePerDay only required to be positive.
GeneratePathRequestSchemaLoose(req) ==
    /\ req.topic >= 3 /\ req.topic <= 200
    /\ req.timePerDay >= 1 /\ req.timePerDay <= 480

\* GeneratePathRequestSchema: topic .min(3).max(200), timePerDay .min(5).max(480).
GeneratePathRequestSchema(req) ==
    /\ req.topic >= 3 /\ req.topic <= 200
    /\ req.timePerDay >= 5 /\ req.timePerDay <= 480

\* The key of the next submission: one never sent before, or (when the
\* client repeats itself) one of the keys already sent.
FreshKey == Len(idempotencyKeys) + 1
KeyChoices == IF budget.reuse THEN 1..FreshKey ELSE {FreshKey}

\* The response of the route to a request.
Reply(req, outcome, jobId, code) ==
    [request |-> req, outcome |-> outcome, jobId |-> jobId, code |-> code]

\* The route without the look-up of the idempotency key: every valid
\* request creates a Course and a Job, and the key is (re)bound to the new job.
SubmitUnchecked ==
    /\ budget.jobs > 0
    /\ budget' = [budget EXCEPT !.jobs = @ - 1]
    /\ \E t \in budget.times, n \in budget.topics, k \in KeyChoices :
          LET req == Request(n, t, k)
          IN IF ~GeneratePathRequestSchema(req)
             THEN /\ replies' = Append(replies, Reply(req, "rejected", 0, "VALIDATION_ERROR"))
                  /\ UNCHANGED <<idempotencyKeys, jobs, courses, events, clock,
                                 calls, runs>>
             ELSE \E tick \in {0, 1} :
                  /\ clock + tick <= MaxClock
                  /\ clock' = clock + tick
                  /\ idempotencyKeys' =
                        IF k \in DOMAIN idempotencyKeys
                        THEN [idempotencyKeys EXCEPT ![k] = Len(jobs) + 1]
                        ELSE Append(idempotencyKeys, Len(jobs) + 1)
                  /\ jobs' = Append(jobs, NewJob("GENERATE_COURSE", clock + tick))
                  /\ courses' = Append(courses, NewCourse(t))
                  /\ events' = Append(events, <<>>)
                  /\ calls' = Append(calls, <<>>)
                  /\ runs' = Append(runs, 0)
                  /\ replies' = Append(replies, Reply(req, "created", Len(jobs) + 1, ""))
    /\ UNCHANGED <<isRunning, loops, provider, dbFaulted>>

\* The route: validate the request, reserve the idempotency key and, for a
\* new key, create a draft Course and a queued Job.  The clock may or may
\* not have advanced since the last submission.
Submit ==
    /\ budget.jobs > 0
    /\ budget' = [budget EXCEPT !.jobs = @ - 1]
    /\ \E t \in budget.times, n \in budget.topics, k \in KeyChoices :
          LET req == Request(n, t, k)
          IN IF ~GeneratePathRequestSchema(req)
             THEN /\ replies' = Append(replies, Reply(req, "rejected", 0, "VALIDATION_ERROR"))
                  /\ UNCHANGED <<idempotencyKeys, jobs, courses, events, clock,
                                 calls, runs>>
             ELSE IF k \in DOMAIN idempotencyKeys
             THEN /\ replies' = Append(replies, Reply(req, "exists", idempotencyKeys[k], ""))
                  /\ UNCHANGED <<idempotencyKeys, jobs, courses, events, clock,
                                 calls, runs>>
             ELSE \E tick \in {0, 1} :
                  /\ clock + tick <= MaxClock
                  /\ clock' = clock + tick
                  /\ idempotencyKeys' = Append(idempotencyKeys, Len(jobs) + 1)
                  /\ jobs' = Append(jobs, NewJob("GENERATE_COURSE", clock + tick))
                  /\ courses' = Append(courses, NewCourse(t))
                  /\ events' = Append(events, <<>>)
                  /\ calls' = Append(calls, <<>>)
                  /\ runs' = Append(runs, 0)
                  /\ replies' = Append(replies, Reply(req, "created", Len(jobs) + 1, ""))
    /\ UNCHANGED <<isRunning, loops, provider, dbFaulted>>

(***************************************************************************)
(* The end of a provider outage: the operations that were down answer      *)
(* again.                                                                  *)
(***************************************************************************)
Recover ==
    /\ budget.recover
    /\ provider.down # {}
    /\ provider' = [provider EXCEPT !.down = {}]
    /\ budget' = [budget EXCEPT !.recover = FALSE]
    /\ UNCHANGED <<isRunning, loops, jobs, courses, events, clock, calls,
                   dbFaulted, runs>>

(***************************************************************************)
(* JobRunner.start(): no-op when running; else sets isRunning and calls    *)
(* poll(), which runs up to its first await (the findFirst of              *)
(* processNextJob).                                                        *)
(***************************************************************************)
FreeLoops == {l \in LoopIds : loops[l].pc = "none"}

\* start() without its isRunning test: every call launches a poll loop.
StartUnguarded ==
    /\ budget.loops > 0
    /\ FreeLoops # {}
    /\ LET l == CHOOSE x \in FreeLoops : \A y \in FreeLoops : x <= y
       IN loops' = [loops EXCEPT ![l] = [NoLoop EXCEPT !.pc = "find"]]
    /\ isRunning' = TRUE
    /\ budget' = [budget EXCEPT !.loops = @ - 1]
    /\ UNCHANGED <<jobs, courses, events, clock, provider, calls,
                   dbFaulted, runs>>

Start ==
    IF isRunning
    THEN UNCHANGED vars
    ELSE /\ budget.loops > 0
         /\ FreeLoops # {}
         /\ LET l == CHOOSE x \in FreeLoops : \A y \in FreeLoops : x <= y
            IN loops' = [loops EXCEPT ![l] = [NoLoop EXCEPT !.pc = "find"]]
         /\ isRunning' = TRUE
         /\ budget' = [budget EXCEPT !.loops = @ - 1]
         /\ UNCHANGED <<jobs, courses, events, clock, provider, calls,
                        dbFaulted, runs>>

(***************************************************************************)
(* JobRunner.stop()                                                        *)
(***************************************************************************)
Stop ==
    /\ isRunning' = FALSE
    /\ UNCHANGED <<loops, jobs, courses, events, clock, provider, budget,
                   calls, dbFaulted, runs>>

(***************************************************************************)
(* getJobRunner(): constructs and starts the JobRunner when                *)
(* jobRunnerInstance is null, and returns jobRunnerInstance.  The start()  *)
(* of a JobRunner just constructed finds isRunning false: it sets it and   *)
(* launches a poll loop.                                                   *)
(***************************************************************************)
\* The budget with one getJobRunner() call less to come.
AfterGet(b) == [b EXCEPT !.gets = @ - 1]

\* getJobRunner without its null test: every call constructs a JobRunner
\* (whose isRunning is false) and starts it.
GetJobRunnerUnguarded ==
    /\ budget.gets > 0
    /\ jobRunnerInstance' = jobRunnerInstance + 1
    /\ \E b \in {AfterGet(budget)} :
          /\ b.loops > 0
          /\ FreeLoops # {}
          /\ LET l == CHOOSE x \in FreeLoops : \A y \in FreeLoops : x <= y
             IN loops' = [loops EXCEPT ![l] = [NoLoop EXCEPT !.pc = "find"]]
          /\ isRunning' = TRUE
          /\ budget' = [b EXCEPT !.loops = @ - 1]
    /\ returned' = Append(returned, jobRunnerInstance')
    /\ UNCHANGED <<jobs, courses, events, clock, provider, calls,
                   dbFaulted, runs>>

GetJobRunner ==
    /\ budget.gets > 0
    /\ IF jobRunnerInstance = 0
       THEN /\ jobRunnerInstance' = jobRunnerInstance + 1
            /\ budget.loops > 0
            /\ FreeLoops # {}
            /\ LET l == CHOOSE x \in FreeLoops : \A y \in FreeLoops : x <= y
               IN loops' = [loops EXCEPT ![l] = [NoLoop EXCEPT !.pc = "find"]]
            /\ isRunning' = TRUE
            /\ budget' = [AfterGet(budget) EXCEPT !.loops = @ - 1]
       ELSE /\ budget' = AfterGet(budget)
            /\ UNCHANGED <<jobRunnerInstance, isRunning, loops>>
    /\ returned' = Append(returned, jobRunnerInstance')
    /\ UNCHANGED <<jobs, courses, events, clock, provider, calls,
                   dbFaulted, runs>>

(***************************************************************************)
(* poll(): after the pollInterval timeout, the while condition.            *)
(***************************************************************************)
Wake(l) ==
    /\ loops[l].pc = "sleep"
    /\ loops' = [loops EXCEPT ![l] =
                    [NoLoop EXCEPT !.pc = IF isRunning THEN "find" ELSE "dead"]]
    /\ UNCHANGED <<isRunning, jobs, courses, events, clock, provider, budget,
                   calls, dbFaulted, runs>>

(***************************************************************************)
(* A prisma write of loop l throws: nothing is written and control goes to *)
(* the handler enclosing the write.                                        *)
(***************************************************************************)
DbThrows(l, handler) ==
    /\ budget.db > 0
    /\ \E e \in DbErrors : loops' = Raise(l, e, handler)
    /\ budget' = [budget EXCEPT !.db = @ - 1]
    /\ dbFaulted' = dbFaulted \cup {loops[l].job}
    /\ UNCHANGED <<isRunning, jobs, courses, events, clock, provider, calls, runs>>

(***************************************************************************)
(* processNextJob: findFirst({status: 'queued'}, orderBy createdAt asc).   *)
(***************************************************************************)
Queued == {j \in JobIds : jobs[j].status = "queued"}

\* findFirst without its orderBy: any queued job.
AnyQueued == Queued

\* The rows findFirst may return: a queued job no other queued job precedes.
OldestQueued == {j \in Queued : \A k \in Queued : jobs[j].createdAt <= jobs[k].createdAt}

PollFind(l) ==
    /\ loops[l].pc = "find"
    /\ IF Queued = {}
       THEN loops' = Goto(l, "sleep")
       ELSE \E j \in OldestQueued :
               loops' = [loops EXCEPT ![l] = [@ EXCEPT !.pc = "claim", !.job = j]]
    /\ UNCHANGED <<isRunning, jobs, courses, events, clock, provider, budget,
                   calls, dbFaulted, runs>>

(***************************************************************************)
(* processNextJob: the update to running ('Starting', 0).  It is outside   *)
(* the try block: if it throws, poll() catches.                            *)
(***************************************************************************)
ClaimJob(l) ==
    /\ loops[l].pc = "claim"
    /\ \/ /\ jobs' = [jobs EXCEPT ![loops[l].job] =
                         [@ EXCEPT !.status = "running",
                                   !.currentStage = "Starting",
                                   !.progressPercent = 0]]
          /\ loops' = Goto(l, "load")
          /\ UNCHANGED <<isRunning, courses, events, clock, provider, budget,
                         calls, dbFaulted, runs>>
       \/ DbThrows(l, "sleep")

(***************************************************************************)
(* processNextJob's dispatch on job.type and the head of                   *)
(* executeGenerateCourse (findUnique with the course).                     *)
(***************************************************************************)
\* processNextJob without its test of job.type: executeGenerateCourse is
\* called for every claimed job.
LoadJobOfAnyType(l) ==
    /\ loops[l].pc = "load"
    /\ loops' = Goto(l, "s1p10")
    /\ runs' = [runs EXCEPT ![loops[l].job] = @ + 1]
    /\ UNCHANGED <<isRunning, jobs, courses, events, clock, provider, budget,
                   calls, dbFaulted>>

LoadJob(l) ==
    /\ loops[l].pc = "load"
    /\ IF jobs[loops[l].job].type = "GENERATE_COURSE"
       THEN /\ loops' = Goto(l, "s1p10")
            /\ runs' = [runs EXCEPT ![loops[l].job] = @ + 1]
       ELSE /\ loops' = Goto(l, "markSucceeded")
            /\ UNCHANGED runs
    /\ UNCHANGED <<isRunning, jobs, courses, events, clock, provider, budget,
                   calls, dbFaulted>>

(***************************************************************************)
(* updateProgress and logEvent                                             *)
(***************************************************************************)
\* updateProgress with `where: { status: 'running' }` (an updateMany) in
\* place of `where: { id: jobId }`: every running job is written.
UpdateProgressOfRunning(jobId, percent, stage) ==
    [j \in DOMAIN jobs |->
        IF j = jobId \/ jobs[j].status = "running"
        THEN [jobs[j] EXCEPT !.progressPercent = percent, !.currentStage = stage]
        ELSE jobs[j]]

\* JobRunner.updateProgress: writes the percent and the stage label as given.
UpdateProgress(jobId, percent, stage) ==
    [jobs EXCEPT ![jobId] = [@ EXCEPT !.progressPercent = percent,
                                      !.currentStage = stage]]

\* JobRunner.logEvent: appends one JobEvent row.
LogEvent(jobId, stage, level, message) ==
    [events EXCEPT ![jobId] = Append(@, Event(stage, level, message))]

\* The updateProgress calls of executeGenerateCourse outside the per-module
\* loops: percent, label, the statement that follows and the handler that
\* encloses the call.
ProgressTable ==
    [s1p10  |-> [percent |-> 10, stage |-> "Stage 1: Generating course skeleton",
                 next |-> "s1logStart", catch |-> "markFailed"],
     s1p12  |-> [percent |-> 12, stage |-> "Stage 1: Retrying with repair",
                 next |-> "s1retry", catch |-> "s1warn2"],
     s1p20  |-> [percent |-> 20, stage |-> "Stage 1: Complete",
                 next |-> "s1fetch", catch |-> "markFailed"],
     s2p25  |-> [percent |-> 25, stage |-> "Stage 2: Generating lessons",
                 next |-> "s2logStart", catch |-> "markFailed"],
     s2p40  |-> [percent |-> 40, stage |-> "Stage 2: Complete",
                 next |-> "s3p45", catch |-> "markFailed"],
     s3p45  |-> [percent |-> 45, stage |-> "Stage 3: Generating quizzes",
                 next |-> "s3logStart", catch |-> "markFailed"],
     s3p70  |-> [percent |-> 70, stage |-> "Stage 3: Complete",
                 next |-> "s4p75", catch |-> "markFailed"],
     s4p75  |-> [percent |-> 75, stage |-> "Stage 4: Finding video resources",
                 next |-> "s4logStart", catch |-> "markFailed"],
     s4p95  |-> [percent |-> 95, stage |-> "Stage 4: Complete",
                 next |-> "s5p98", catch |-> "markFailed"],
     s5p98  |-> [percent |-> 98, stage |-> "Stage 5: Finalizing",
                 next |-> "s5log", catch |-> "markFailed"],
     s5p100 |-> [percent |-> 100, stage |-> "Stage 5: Complete",
                 next |-> "s5logActivated", catch |-> "markFailed"]]

UpdateProgressStep(l) ==
    /\ loops[l].pc \in DOMAIN ProgressTable
    /\ LET row == ProgressTable[loops[l].pc]
       IN \/ /\ jobs' = UpdateProgress(loops[l].job, row.percent, row.stage)
             /\ loops' = Goto(l, row.next)
             /\ UNCHANGED <<isRunning, courses, events, clock, provider, budget,
                            calls, dbFaulted, runs>>
          \/ DbThrows(l, row.catch)

\* The module the per-module loop of l is at: its index in the course, and
\* its order field.
CurModule(l) == loops[l].mods[loops[l].i]
CurOrder(l) == courses[loops[l].job].modules[CurModule(l)].order

\* The updateProgress call at the head of each per-module loop:
\* floor(base + ((i + 1) / modules.length) * span), i counted from 0.
ModuleProgressTable ==
    [s2mp |-> [base |-> 25, span |-> 15, stage |-> "Stage 2: Module ",
               what |-> " lessons", next |-> "s2call"],
     s3mp |-> [base |-> 45, span |-> 25, stage |-> "Stage 3: Module ",
               what |-> " quiz", next |-> "s3call"],
     s4mp |-> [base |-> 75, span |-> 20, stage |-> "Stage 4: Module ",
               what |-> " resources", next |-> "s4call"]]

ModulePercent(base, span, i, n) == base + ((i * span) \div n)

ModuleProgressStep(l) ==
    /\ loops[l].pc \in DOMAIN ModuleProgressTable
    /\ LET row == ModuleProgressTable[loops[l].pc]
       IN \/ /\ jobs' = UpdateProgress(loops[l].job,
                            ModulePercent(row.base, row.span, loops[l].i,
                                          Len(loops[l].mods)),
                            row.stage \o ToString(CurOrder(l)) \o row.what)
             /\ loops' = Goto(l, row.next)
             /\ UNCHANGED <<isRunning, courses, events, clock, provider, budget,
                            calls, dbFaulted, runs>>
          \/ DbThrows(l, "markFailed")

\* The logEvent calls outside the per-module loops.
LogTable ==
    [s1logStart |-> [stage |-> "Stage 1", level |-> "info",
                     message |-> "Starting course skeleton generation",
                     next |-> "s1try", catch |-> "markFailed"],
     s1logGen |-> [stage |-> "Stage 1", level |-> "info",
                   message |-> "Course skeleton generated",
                   next |-> "s1save", catch |-> "s1warn1"],
     s1warn1 |-> [stage |-> "Stage 1", level |-> "warn",
                  message |-> "LLM failed, attempting repair",
                  next |-> "s1p12", catch |-> "markFailed"],
     s1logRepair |-> [stage |-> "Stage 1", level |-> "info",
                      message |-> "Repair succeeded",
                      next |-> "s1save", catch |-> "s1warn2"],
     s1warn2 |-> [stage |-> "Stage 1", level |-> "warn",
                  message |-> "Using fallback generator",
                  next |-> "s1mock", catch |-> "markFailed"],
     s2logStart |-> [stage |-> "Stage 2", level |-> "info",
                     message |-> "Starting lesson generation for all modules",
                     next |-> "s2mp", catch |-> "markFailed"],
     s3logStart |-> [stage |-> "Stage 3", level |-> "info",
                     message |-> "Starting quiz generation for all modules",
                     next |-> "s3mp", catch |-> "markFailed"],
     s4logStart |-> [stage |-> "Stage 4", level |-> "info",
                     message |-> "Starting YouTube resource search",
                     next |-> "s4mp", catch |-> "markFailed"],
     s5log |-> [stage |-> "Stage 5", level |-> "info",
                message |-> "Finalizing course",
                next |-> "s5activate", catch |-> "markFailed"],
     s5logActivated |-> [stage |-> "Stage 5", level |-> "info",
                         message |-> "Course activated",
                         next |-> "markSucceeded", catch |-> "markFailed"],
     logCompleted |-> [stage |-> "Completed", level |-> "info",
                       message |-> "Job completed successfully",
                       next |-> "sleep", catch |-> "markFailed"]]

LogEventStep(l) ==
    /\ loops[l].pc \in DOMAIN LogTable
    /\ LET row == LogTable[loops[l].pc]
       IN \/ /\ events' = LogEvent(loops[l].job, row.stage, row.level, row.message)
             /\ loops' = Goto(l, row.next)
             /\ UNCHANGED <<isRunning, jobs, courses, clock, provider, budget,
                            calls, dbFaulted, runs>>
          \/ DbThrows(l, row.catch)

\* The logEvent calls inside the per-module loops: `Module ${module.order} ...`.
\* head/after: where the loop goes on after the call ("" when the fallback
\* block follows instead).
ModuleLogTable ==
    [s2logOk |-> [stage |-> "Stage 2", level |-> "info", what |-> " lessons created",
                  next |-> "", head |-> "s2mp", after |-> "s2p40", catch |-> "s2warn"],
     s2warn |-> [stage |-> "Stage 2", level |-> "warn",
                 what |-> " lessons failed, using fallback",
                 next |-> "s2fb", head |-> "", after |-> "", catch |-> "markFailed"],
     s3logOk |-> [stage |-> "Stage 3", level |-> "info", what |-> " quiz created",
                  next |-> "", head |-> "s3mp", after |-> "s3p70", catch |-> "s3warn"],
     s3warn |-> [stage |-> "Stage 3", level |-> "warn",
                 what |-> " quiz failed, using fallback",
                 next |-> "s3fb", head |-> "", after |-> "", catch |-> "markFailed"],
     s4logOk |-> [stage |-> "Stage 4", level |-> "info", what |-> " resources added",
                  next |-> "", head |-> "s4mp", after |-> "s4p95", catch |-> "s4warn"],
     s4warn |-> [stage |-> "Stage 4", level |-> "warn",
                 what |-> " resources failed (non-fatal)",
                 next |-> "", head |-> "s4mp", after |-> "s4p95",
                 catch |-> "markFailed"]]

ModuleLogStep(l) ==
    /\ loops[l].pc \in DOMAIN ModuleLogTable
    /\ LET row == ModuleLogTable[loops[l].pc]
       IN \/ /\ events' = LogEvent(loops[l].job, row.stage, row.level,
                              "Module " \o ToString(CurOrder(l)) \o row.what)
             /\ loops' = IF row.next = "" THEN Advance(l, row.head, row.after)
                                          ELSE Goto(l, row.next)
             /\ UNCHANGED <<isRunning, jobs, courses, clock, provider, budget,
                            calls, dbFaulted, runs>>
          \/ DbThrows(l, row.catch)

(***************************************************************************)
(* Writes to the course.                                                   *)
(***************************************************************************)
AddModule(jobId, order) ==
    [courses EXCEPT ![jobId].modules = Append(@, NewModule(order))]

AddLessons(jobId, m, rows) ==
    [courses EXCEPT ![jobId].modules[m].lessons = @ \o rows]

AddQuiz(jobId, m, quiz) ==
    [courses EXCEPT ![jobId].modules[m].quizzes = Append(@, quiz)]

AddResources(jobId, m, n) ==
    [courses EXCEPT ![jobId].modules[m].resources = @ \o [j \in 1..n |-> NewResource(j)]]

\* Of n writes in a row, how many are done when one of them throws: the
\* first throws, or the last one does.
FaultPoints(n) == IF n = 0 THEN {} ELSE {0, n - 1}

\* A block of prisma writes of loop l throws part-way: the database is left
\* as `written` and control goes to the enclosing handler.
WritesThrow(l, written, handler) ==
    /\ budget.db > 0
    /\ courses' = written
    /\ \E e \in DbErrors : loops' = Raise(l, e, handler)
    /\ budget' = [budget EXCEPT !.db = @ - 1]
    /\ dbFaulted' = dbFaulted \cup {loops[l].job}

(***************************************************************************)
(* STAGE 1: the three generateCourseSkeleton calls.                        *)
(***************************************************************************)
SkeletonTable ==
    [s1try   |-> [next |-> "s1logGen", catch |-> "s1warn1"],
     s1retry |-> [next |-> "s1logRepair", catch |-> "s1warn2"],
     s1mock  |-> [next |-> "s1save", catch |-> "markFailed"]]

GenerateCourseSkeleton(l) ==
    /\ loops[l].pc \in DOMAIN SkeletonTable
    /\ LET row == SkeletonTable[loops[l].pc]
           jobId == loops[l].job
       IN \/ /\ LLMMayReturn("skeleton")
             /\ calls' = [calls EXCEPT ![jobId] = Append(@, Call("skeleton", 0, TRUE))]
             /\ loops' = Goto(l, row.next)
             /\ UNCHANGED budget
          \/ /\ LLMMayThrow("skeleton")
             /\ calls' = [calls EXCEPT ![jobId] = Append(@, Call("skeleton", 0, FALSE))]
             /\ \E e \in LLMErrors : loops' = Raise(l, e, row.catch)
             /\ budget' = AfterThrow("skeleton")
    /\ UNCHANGED <<isRunning, jobs, courses, events, clock, provider, dbFaulted, runs>>

\* `for (const moduleData of skeleton.modules)`: one prisma.module.create.
SaveModule(l) ==
    /\ loops[l].pc = "s1save"
    /\ \/ /\ courses' = AddModule(loops[l].job, loops[l].i)
          /\ loops' = IF loops[l].i < NumModules
                      THEN [loops EXCEPT ![l].i = @ + 1]
                      ELSE Goto(l, "s1p20")
          /\ UNCHANGED <<isRunning, jobs, events, clock, provider, budget,
                         calls, dbFaulted, runs>>
       \/ DbThrows(l, "markFailed")

\* prisma.module.findMany({courseId}, orderBy order asc): the indexes of the
\* course's modules by order, rows of equal order in insertion order.
ModulesByOrder(course) ==
    LET n == Len(course.modules)
        Before(a, b) == \/ course.modules[a].order < course.modules[b].order
                        \/ /\ course.modules[a].order = course.modules[b].order
                           /\ a < b
        Rank(a) == 1 + Cardinality({b \in 1..n : Before(b, a)})
    IN [r \in 1..n |-> CHOOSE a \in 1..n : Rank(a) = r]

FetchModules(l) ==
    /\ loops[l].pc = "s1fetch"
    /\ loops' = [loops EXCEPT ![l] =
                    [@ EXCEPT !.pc = "s2p25",
                              !.mods = ModulesByOrder(courses[loops[l].job])]]
    /\ UNCHANGED <<isRunning, jobs, courses, events, clock, provider, budget,
                   calls, dbFaulted, runs>>

(***************************************************************************)
(* STAGE 2: generateLessons for one module and its prisma.lesson.create    *)
(* calls; the fallback block.                                              *)
(***************************************************************************)
\* generateLessons called outside its try block: a throwing call leaves
\* executeGenerateCourse.
GenerateLessonsUncaught(l) ==
    /\ loops[l].pc = "s2call"
    /\ LET jobId == loops[l].job
           m == CurModule(l)
           steps == GeneratedLessons(provider.steps)
       IN \/ /\ LLMMayReturn("lessons")
             /\ calls' = [calls EXCEPT ![jobId] = Append(@, Call("lessons", m, TRUE))]
             /\ \/ /\ courses' = AddLessons(jobId, m, steps)
                   /\ loops' = Goto(l, "s2logOk")
                   /\ UNCHANGED <<budget, dbFaulted>>
                \/ \E k \in FaultPoints(Len(steps)) :
                      WritesThrow(l, AddLessons(jobId, m, SubSeq(steps, 1, k)), "s2warn")
          \/ /\ LLMMayThrow("lessons")
             /\ calls' = [calls EXCEPT ![jobId] = Append(@, Call("lessons", m, FALSE))]
             /\ \E e \in LLMErrors : loops' = Raise(l, e, "markFailed")
             /\ budget' = AfterThrow("lessons")
             /\ UNCHANGED <<courses, dbFaulted>>
    /\ UNCHANGED <<isRunning, jobs, events, clock, provider, runs>>

GenerateLessons(l) ==
    /\ loops[l].pc = "s2call"
    /\ LET jobId == loops[l].job
           m == CurModule(l)
           steps == GeneratedLessons(provider.steps)
       IN \/ /\ LLMMayReturn("lessons")
             /\ calls' = [calls EXCEPT ![jobId] = Append(@, Call("lessons", m, TRUE))]
             /\ \/ /\ courses' = AddLessons(jobId, m, steps)
                   /\ loops' = Goto(l, "s2logOk")
                   /\ UNCHANGED <<budget, dbFaulted>>
                \/ \E k \in FaultPoints(Len(steps)) :
                      WritesThrow(l, AddLessons(jobId, m, SubSeq(steps, 1, k)), "s2warn")
          \/ /\ LLMMayThrow("lessons")
             /\ calls' = [calls EXCEPT ![jobId] = Append(@, Call("lessons", m, FALSE))]
             /\ \E e \in LLMErrors : loops' = Raise(l, e, "s2warn")
             /\ budget' = AfterThrow("lessons")
             /\ UNCHANGED <<courses, dbFaulted>>
    /\ UNCHANGED <<isRunning, jobs, events, clock, provider, runs>>

\* The fallback block with a prisma.lesson.deleteMany for the module in front
\* of its creates: the rows the try block wrote are replaced.
LessonsFallbackReplacing(l) ==
    /\ loops[l].pc = "s2fb"
    /\ LET jobId == loops[l].job
           m == CurModule(l)
           rows == [j \in 1..FallbackLessons |->
                       FallbackLesson(j, courses[jobId].timePerDay)]
           put(k) == [courses EXCEPT ![jobId].modules[m].lessons = SubSeq(rows, 1, k)]
       IN \/ /\ courses' = put(FallbackLessons)
             /\ loops' = Advance(l, "s2mp", "s2p40")
             /\ UNCHANGED <<budget, dbFaulted>>
          \/ \E k \in FaultPoints(FallbackLessons) :
                WritesThrow(l, put(k), "markFailed")
    /\ UNCHANGED <<isRunning, jobs, events, clock, provider, calls, runs>>

LessonsFallback(l) ==
    /\ loops[l].pc = "s2fb"
    /\ LET jobId == loops[l].job
           m == CurModule(l)
           rows == [j \in 1..FallbackLessons |->
                       FallbackLesson(j, courses[jobId].timePerDay)]
       IN \/ /\ courses' = AddLessons(jobId, m, rows)
             /\ loops' = Advance(l, "s2mp", "s2p40")
             /\ UNCHANGED <<budget, dbFaulted>>
          \/ \E k \in FaultPoints(FallbackLessons) :
                WritesThrow(l, AddLessons(jobId, m, SubSeq(rows, 1, k)), "markFailed")
    /\ UNCHANGED <<isRunning, jobs, events, clock, provider, calls, runs>>

(***************************************************************************)
(* STAGE 3: generateQuiz for one module, prisma.quiz.create and its        *)
(* prisma.quizQuestion.create calls; the fallback block.                   *)
(***************************************************************************)
GenerateQuiz(l) ==
    /\ loops[l].pc = "s3call"
    /\ LET jobId == loops[l].job
           m == CurModule(l)
           n == provider.questions
           quiz(k) == NewQuiz(n, [q \in 1..k |-> GeneratedQuestion(q)])
       IN \/ /\ LLMMayReturn("quiz")
             /\ calls' = [calls EXCEPT ![jobId] = Append(@, Call("quiz", m, TRUE))]
             /\ \/ /\ courses' = AddQuiz(jobId, m, quiz(n))
                   /\ loops' = Goto(l, "s3logOk")
                   /\ UNCHANGED <<budget, dbFaulted>>
                \/ WritesThrow(l, courses, "s3warn")
                \/ \E k \in FaultPoints(n) :
                      WritesThrow(l, AddQuiz(jobId, m, quiz(k)),
                                  "s3warn")
          \/ /\ LLMMayThrow("quiz")
             /\ calls' = [calls EXCEPT ![jobId] = Append(@, Call("quiz", m, FALSE))]
             /\ \E e \in LLMErrors : loops' = Raise(l, e, "s3warn")
             /\ budget' = AfterThrow("quiz")
             /\ UNCHANGED <<courses, dbFaulted>>
    /\ UNCHANGED <<isRunning, jobs, events, clock, provider, runs>>

QuizFallback(l) ==
    /\ loops[l].pc = "s3fb"
    /\ LET jobId == loops[l].job
           m == CurModule(l)
           n == FallbackQuestions
           quiz(k) == NewQuiz(n, [q \in 1..k |-> FallbackQuestion(q)])
       IN \/ /\ courses' = AddQuiz(jobId, m, quiz(n))
             /\ loops' = Advance(l, "s3mp", "s3p70")
             /\ UNCHANGED <<budget, dbFaulted>>
          \/ WritesThrow(l, courses, "markFailed")
          \/ \E k \in FaultPoints(n) :
                WritesThrow(l, AddQuiz(jobId, m, quiz(k)),
                            "markFailed")
    /\ UNCHANGED <<isRunning, jobs, events, clock, provider, calls, runs>>

(***************************************************************************)
(* STAGE 4: searchVideos(query, 3) for one module and its                  *)
(* prisma.resource.create calls.                                           *)
(***************************************************************************)
SearchVideos(l) ==
    /\ loops[l].pc = "s4call"
    /\ LET jobId == loops[l].job
           m == CurModule(l)
           n == provider.videos
       IN \/ /\ YouTubeMayReturn
             /\ calls' = [calls EXCEPT ![jobId] = Append(@, Call("videos", m, TRUE))]
             /\ \/ /\ courses' = AddResources(jobId, m, n)
                   /\ loops' = Goto(l, "s4logOk")
                   /\ UNCHANGED <<budget, dbFaulted>>
                \/ \E k \in FaultPoints(n) :
                      WritesThrow(l, AddResources(jobId, m, k), "s4warn")
          \/ /\ YouTubeMayThrow
             /\ calls' = [calls EXCEPT ![jobId] = Append(@, Call("videos", m, FALSE))]
             /\ loops' = Raise(l, YouTubeError, "s4warn")
             /\ budget' = AfterThrow("videos")
             /\ UNCHANGED <<courses, dbFaulted>>
    /\ UNCHANGED <<isRunning, jobs, events, clock, provider, runs>>

(***************************************************************************)
(* STAGE 5: prisma.course.update({status: 'active'}).                      *)
(***************************************************************************)
ActivateCourse(l) ==
    /\ loops[l].pc = "s5activate"
    /\ \/ /\ courses' = [courses EXCEPT ![loops[l].job].status = "active"]
          /\ loops' = Goto(l, "s5p100")
          /\ UNCHANGED <<isRunning, jobs, events, clock, provider, budget,
                         calls, dbFaulted, runs>>
       \/ DbThrows(l, "markFailed")

(***************************************************************************)
(* processNextJob: the bookkeeping after executeGenerateCourse returned    *)
(* (try block) or anything in the try block threw (catch block).           *)
(***************************************************************************)
MarkSucceeded(l) ==
    /\ loops[l].pc = "markSucceeded"
    /\ \/ /\ jobs' = [jobs EXCEPT ![loops[l].job] =
                         [@ EXCEPT !.status = "succeeded",
                                   !.progressPercent = 100,
                                   !.currentStage = "Completed"]]
          /\ loops' = Goto(l, "logCompleted")
          /\ UNCHANGED <<isRunning, courses, events, clock, provider, budget,
                         calls, dbFaulted, runs>>
       \/ DbThrows(l, "markFailed")

\* error.code || ErrorCode.JOB_RUNNER_FAILURE
ErrorCodeOf(e) == IF e.code # "" THEN e.code ELSE "JOB_RUNNER_FAILURE"

\* error.message || 'Unknown error'
ErrorMessageOf(e) == IF e.message # "" THEN e.message ELSE "Unknown error"

\* The catch block's update with progressPercent and currentStage among its
\* data: the failure resets the progress.
FailedUpdateResetting(job, e) ==
    [job EXCEPT !.status = "failed",
                !.errorCode = ErrorCodeOf(e),
                !.errorMessage = ErrorMessageOf(e),
                !.progressPercent = 0,
                !.currentStage = "Failed"]

\* The data of the catch block's update: status, errorCode and errorMessage.
FailedUpdate(job, e) ==
    [job EXCEPT !.status = "failed",
                !.errorCode = ErrorCodeOf(e),
                !.errorMessage = ErrorMessageOf(e)]

\* The catch block's update under a poll() without its try/catch: an
\* exception of the update ends the poll loop.
MarkFailedUncaught(l) ==
    /\ loops[l].pc = "markFailed"
    /\ \/ /\ jobs' = [jobs EXCEPT ![loops[l].job] = FailedUpdate(@, loops[l].err)]
          /\ loops' = Goto(l, "logFailed")
          /\ UNCHANGED <<isRunning, courses, events, clock, provider, budget,
                         calls, dbFaulted, runs>>
       \/ DbThrows(l, "dead")

\* The catch block's update; if it throws, the exception leaves
\* processNextJob and poll() catches it.
MarkFailed(l) ==
    /\ loops[l].pc = "markFailed"
    /\ \/ /\ jobs' = [jobs EXCEPT ![loops[l].job] = FailedUpdate(@, loops[l].err)]
          /\ loops' = Goto(l, "logFailed")
          /\ UNCHANGED <<isRunning, courses, events, clock, provider, budget,
                         calls, dbFaulted, runs>>
       \/ DbThrows(l, "sleep")

\* The catch block's logEvent(job.id, 'Failed', 'error', errorMessage, ...).
LogFailed(l) ==
    /\ loops[l].pc = "logFailed"
    /\ \/ /\ events' = LogEvent(loops[l].job, "Failed", "error",
                                ErrorMessageOf(loops[l].err))
          /\ loops' = Goto(l, "sleep")
          /\ UNCHANGED <<isRunning, jobs, courses, clock, provider, budget,
                         calls, dbFaulted, runs>>
       \/ DbThrows(l, "sleep")

(***************************************************************************)
(* The next-state relation and the specification.                          *)
(***************************************************************************)
\* A loop is busy between the findFirst it issued and the end of
\* processNextJob; otherwise it has not started, sleeps or has ended.
Busy(l) == loops[l].pc \notin {"none", "sleep", "dead"}

\* Loop l taking the next step preempts the loop that took the last one
\* when that loop is still busy.
Preempts(l) == sched.current \notin {0, l} /\ Busy(sched.current)

\* Loop l is scheduled: a preemption uses up one of the switches.  No
\* request is handled in a step of a poll loop.
Schedule(l) ==
    /\ UNCHANGED <<intake, singleton>>
    /\ Preempts(l) => sched.switches > 0
    /\ sched' = [current |-> l,
                 switches |-> IF Preempts(l) THEN sched.switches - 1
                                             ELSE sched.switches]

\* One step of poll loop l, when the scheduler lets it run.
LoopStep(l) ==
    \/ Schedule(l) /\ Wake(l)
    \/ Schedule(l) /\ PollFind(l)
    \/ Schedule(l) /\ ClaimJob(l)
    \/ Schedule(l) /\ LoadJob(l)
    \/ Schedule(l) /\ UpdateProgressStep(l)
    \/ Schedule(l) /\ ModuleProgressStep(l)
    \/ Schedule(l) /\ LogEventStep(l)
    \/ Schedule(l) /\ ModuleLogStep(l)
    \/ Schedule(l) /\ GenerateCourseSkeleton(l)
    \/ Schedule(l) /\ SaveModule(l)
    \/ Schedule(l) /\ FetchModules(l)
    \/ Schedule(l) /\ GenerateLessons(l)
    \/ Schedule(l) /\ LessonsFallback(l)
    \/ Schedule(l) /\ GenerateQuiz(l)
    \/ Schedule(l) /\ QuizFallback(l)
    \/ Schedule(l) /\ SearchVideos(l)
    \/ Schedule(l) /\ ActivateCourse(l)
    \/ Schedule(l) /\ MarkSucceeded(l)
    \/ Schedule(l) /\ MarkFailed(l)
    \/ Schedule(l) /\ LogFailed(l)

\* start() and stop() are called on the JobRunner that getJobRunner() has
\* returned.
Next ==
    \/ Submit /\ UNCHANGED <<sched, singleton>>
    \/ Recover /\ UNCHANGED <<sched, intake, singleton>>
    \/ GetJobRunner /\ UNCHANGED <<sched, intake>>
    \/ jobRunnerInstance # 0 /\ Start /\ UNCHANGED <<sched, intake, singleton>>
    \/ jobRunnerInstance # 0 /\ Stop /\ UNCHANGED <<sched, intake, singleton>>
    \/ \E l \in LoopIds : LoopStep(l)

Spec == Init /\ [][Next]_vars

(***************************************************************************)
(* Vocabulary of the properties.                                           *)
(***************************************************************************)
Running == {j \in JobIds : jobs[j].status = "running"}

\* The calls of operation op made for job j, in order.
CallsOf(j, op) == SelectSeq(calls[j], LAMBDA c : c.op = op)

\* The first skeleton attempt and the retry both threw.
SkeletonFailedTwice(j) ==
    LET sk == CallsOf(j, "skeleton")
    IN Len(sk) >= 2 /\ ~sk[1].ok /\ ~sk[2].ok

\* Three skeleton attempts in a row threw: Stage 1 is exhausted.
SkeletonExhausted(j) ==
    LET sk == CallsOf(j, "skeleton")
    IN \E i \in 1..(Len(sk) - 2) : ~sk[i].ok /\ ~sk[i + 1].ok /\ ~sk[i + 2].ok

\* Every provider call made for job j threw, and some call was made.
AllCallsFailed(j) ==
    /\ calls[j] # <<>>
    /\ \A i \in 1..Len(calls[j]) : ~calls[j][i].ok

HasEvent(j, stage, level) ==
    \E i \in 1..Len(events[j]) :
        events[j][i].stage = stage /\ events[j][i].level = level

\* The loops that hold job j and are at one of the pcs.
LoopsAt(j, pcs) == {l \in LoopIds : loops[l].job = j /\ loops[l].pc \in pcs}

\* The positions of a loop before Stage 2, before Stage 3, before Stage 4
\* and before the course is marked active.
BeforeStage2 ==
    {"claim", "load", "s1p10", "s1logStart", "s1try", "s1logGen", "s1warn1",
     "s1p12", "s1retry", "s1logRepair", "s1warn2", "s1mock", "s1save"}
BeforeStage3 ==
    BeforeStage2 \cup {"s1p20", "s1fetch", "s2p25", "s2logStart", "s2mp",
                       "s2call", "s2logOk", "s2warn", "s2fb"}
BeforeStage4 ==
    BeforeStage3 \cup {"s2p40", "s3p45", "s3logStart", "s3mp", "s3call",
                       "s3logOk", "s3warn", "s3fb"}
BeforeStage5 ==
    BeforeStage4 \cup {"s3p70", "s4p75", "s4logStart", "s4mp", "s4call",
                       "s4logOk", "s4warn"}

Modules(j) == courses[j].modules
ModuleIds(j) == 1..Len(Modules(j))

\* The jobs that executeGenerateCourse is for.
CourseJobs == {j \in JobIds : jobs[j].type = "GENERATE_COURSE"}

(***************************************************************************)
(* C1: terminal states are absorbing: once a job is succeeded or failed,   *)
(* no step changes its status again.                                       *)
(***************************************************************************)
C1_TerminalAbsorbing ==
    [][\A j \in JobIds :
          jobs[j].status \in Terminal => jobs'[j].status = jobs[j].status]_vars

(***************************************************************************)
(* C2: the course of every succeeded course job has exactly 5 modules,     *)
(* each with 3 to 10 lessons, exactly one quiz of 5 to 15 questions, and   *)
(* 0 to 5 resources.                                                       *)
(***************************************************************************)
C2_SucceededCourseShape ==
    \A j \in CourseJobs :
        jobs[j].status = "succeeded" =>
            /\ Len(Modules(j)) = NumModules
            /\ \A m \in ModuleIds(j) :
                  /\ Len(Modules(j)[m].lessons) \in MinSteps..MaxSteps
                  /\ Len(Modules(j)[m].quizzes) = 1
                  /\ \A q \in 1..Len(Modules(j)[m].quizzes) :
                        Len(Modules(j)[m].quizzes[q].questions)
                            \in MinQuestions..MaxQuestions
                  /\ Len(Modules(j)[m].resources) \in 0..5

(***************************************************************************)
(* C3: no step lowers the progressPercent of a job.                        *)
(***************************************************************************)
C3_ProgressNonDecreasing ==
    [][\A j \in JobIds :
          jobs'[j].progressPercent >= jobs[j].progressPercent]_vars

(***************************************************************************)
(* C4: a job whose first skeleton attempt and retry both threw (and whose  *)
(* database writes all went through) ends succeeded, with a warn event of  *)
(* Stage 1 in its log.                                                     *)
(***************************************************************************)
C4_SkeletonFallbackSucceeds ==
    \A j \in JobIds :
        (SkeletonFailedTwice(j) /\ j \notin dbFaulted
            /\ jobs[j].status \in Terminal) =>
                jobs[j].status = "succeeded" /\ HasEvent(j, "Stage 1", "warn")

(***************************************************************************)
(* C5: a job for which every provider call threw (and whose database       *)
(* writes all went through) ends succeeded with 5 modules, each with the   *)
(* 4 fallback lessons, one fallback quiz of 3 questions and no resource.   *)
(***************************************************************************)
C5_AllProvidersFailStillSucceeds ==
    \A j \in JobIds :
        (AllCallsFailed(j) /\ j \notin dbFaulted
            /\ jobs[j].status \in Terminal) =>
                /\ jobs[j].status = "succeeded"
                /\ Len(Modules(j)) = NumModules
                /\ \A m \in ModuleIds(j) :
                      /\ Len(Modules(j)[m].lessons) = FallbackLessons
                      /\ Len(Modules(j)[m].quizzes) = 1
                      /\ Len(Modules(j)[m].quizzes[1].questions) = FallbackQuestions
                      /\ Modules(j)[m].resources = <<>>

(***************************************************************************)
(* C6: a lessons, quiz or video-search call that throws never fails a      *)
(* course job: it is failed only if a database write threw during its run  *)
(* or the skeleton stage was exhausted, and succeeded it has had the       *)
(* lessons, quiz and resources step run for every skeleton module, each    *)
(* of which has lessons and a quiz.                                        *)
(***************************************************************************)
C6_StageFailuresRecovered ==
    \A j \in CourseJobs :
        /\ jobs[j].status = "failed" => (j \in dbFaulted \/ SkeletonExhausted(j))
        /\ jobs[j].status = "succeeded" =>
              \A m \in 1..NumModules :
                  /\ \A op \in {"lessons", "quiz", "videos"} :
                        \E i \in 1..Len(calls[j]) :
                            calls[j][i].op = op /\ calls[j][i].module = m
                  /\ Modules(j)[m].lessons # <<>>
                  /\ Modules(j)[m].quizzes # <<>>

\* C6 witness: a succeeded job for which a lessons, a quiz and a video-search
\* call threw.
C6_Witness ==
    \E j \in JobIds :
        /\ jobs[j].status = "succeeded"
        /\ \A op \in {"lessons", "quiz", "videos"} :
              \E i \in 1..Len(calls[j]) : calls[j][i].op = op /\ ~calls[j][i].ok

(***************************************************************************)
(* C7: at most one job is running at any time.                             *)
(***************************************************************************)
C7_AtMostOneRunning == Cardinality(Running) <= 1

(***************************************************************************)
(* C8: jobs are claimed in creation order: whenever a job goes from queued *)
(* to running, no job created before it is still queued.                   *)
(***************************************************************************)
C8_ClaimedInCreationOrder ==
    [][\A j \in JobIds :
          (jobs[j].status = "queued" /\ jobs'[j].status = "running") =>
              \A k \in JobIds :
                  jobs[k].createdAt < jobs[j].createdAt =>
                      jobs[k].status # "queued"]_vars

\* C8 witness: of two jobs created at different times, the older has been
\* claimed while the younger is still queued.
C8_Witness ==
    \E a, b \in JobIds :
        /\ jobs[a].createdAt < jobs[b].createdAt
        /\ jobs[a].status = "running"
        /\ jobs[b].status = "queued"

(***************************************************************************)
(* C9: every change of a job's status is queued -> running,                *)
(* running -> succeeded or running -> failed.                              *)
(***************************************************************************)
C9_LinearTransitions ==
    [][\A j \in JobIds :
          jobs'[j].status # jobs[j].status =>
              <<jobs[j].status, jobs'[j].status>> \in
                  {<<"queued", "running">>, <<"running", "succeeded">>,
                   <<"running", "failed">>}]_vars

(***************************************************************************)
(* C10: the stages of a course job run in strict order and once: no lesson *)
(* exists while a run of it is still before Stage 2, no quiz while one is  *)
(* before Stage 3, no resource while one is before Stage 4, the course is  *)
(* not active while one is before the activation, and a succeeded job has  *)
(* been through the pipeline exactly once.                                 *)
(***************************************************************************)
C10_StagesInOrderOnce ==
    \A j \in CourseJobs :
        /\ (\E m \in ModuleIds(j) : Modules(j)[m].lessons # <<>>)
              => LoopsAt(j, BeforeStage2) = {}
        /\ (\E m \in ModuleIds(j) : Modules(j)[m].quizzes # <<>>)
              => LoopsAt(j, BeforeStage3) = {}
        /\ (\E m \in ModuleIds(j) : Modules(j)[m].resources # <<>>)
              => LoopsAt(j, BeforeStage4) = {}
        /\ courses[j].status = "active" => LoopsAt(j, BeforeStage5) = {}
        /\ jobs[j].status = "succeeded" => runs[j] = 1

(***************************************************************************)
(* C11: once the skeleton stage of a job is exhausted (three attempts in a *)
(* row threw) and the database writes of the job went through, the job is  *)
(* failed (or its loop is about to write failed) and stays so, no module   *)
(* has been written for it and its course is not active.                   *)
(***************************************************************************)
C11_SkeletonExhaustionIsFatal ==
    \A j \in JobIds :
        (SkeletonExhausted(j) /\ j \notin dbFaulted) =>
            /\ jobs[j].status = "failed" \/ LoopsAt(j, {"markFailed"}) # {}
            /\ Modules(j) = <<>>
            /\ courses[j].status # "active"

(***************************************************************************)
(* C12: a job whose status is succeeded has progressPercent 100.           *)
(***************************************************************************)
C12_SucceededAtHundred ==
    \A j \in JobIds :
        jobs[j].status = "succeeded" => jobs[j].progressPercent = 100

\* The percent range of each of the five stages, and the labels
\* updateProgress writes in each stage.
StageRange == <<0..20, 20..40, 40..70, 70..95, 95..100>>

StageProgressPcs ==
    <<{"s1p10", "s1p12", "s1p20"}, {"s2p25", "s2p40"}, {"s3p45", "s3p70"},
      {"s4p75", "s4p95"}, {"s5p98", "s5p100"}>>

StageModulePcs == <<{}, {"s2mp"}, {"s3mp"}, {"s4mp"}, {}>>

StageLabels(n) ==
    {ProgressTable[k].stage : k \in StageProgressPcs[n]}
        \cup {ModuleProgressTable[k].stage \o ToString(o)
                  \o ModuleProgressTable[k].what :
                      k \in StageModulePcs[n], o \in 1..NumModules}

(***************************************************************************)
(* C13: while a job is running, its label is 'Starting' or a label of one  *)
(* of the five stages, its progressPercent lies in the range of the stage  *)
(* its label names, and the value 12 is shown only if a skeleton attempt   *)
(* of the job has failed.                                                  *)
(***************************************************************************)
C13_ProgressWithinStageRange ==
    \A j \in JobIds :
        jobs[j].status = "running" =>
            /\ \/ jobs[j].currentStage = "Starting" /\ jobs[j].progressPercent = 0
               \/ \E n \in 1..5 :
                     /\ jobs[j].currentStage \in StageLabels(n)
                     /\ jobs[j].progressPercent \in StageRange[n]
            /\ jobs[j].progressPercent = 12 =>
                  \E i \in 1..Len(calls[j]) :
                      calls[j][i].op = "skeleton" /\ ~calls[j][i].ok

\* C13 without its last clause: the ranges alone.
C13_RangesOnly ==
    \A j \in JobIds :
        jobs[j].status = "running" =>
            \/ jobs[j].currentStage = "Starting" /\ jobs[j].progressPercent = 0
            \/ \E n \in 1..5 :
                  /\ jobs[j].currentStage \in StageLabels(n)
                  /\ jobs[j].progressPercent \in StageRange[n]

\* The warn events of a stage logged for module m of job j: the step of
\* that stage failed for the module.
FallbackEvents(j, m, pc) ==
    {i \in 1..Len(events[j]) :
        events[j][i] = Event(ModuleLogTable[pc].stage, "warn",
                             "Module " \o ToString(Modules(j)[m].order)
                                 \o ModuleLogTable[pc].what)}

\* Job j has been through the pipeline up to the given stage and goes on
\* (or has succeeded): no loop holds it at an earlier position or in the
\* failure bookkeeping.
StageEnded(j, before) ==
    /\ runs[j] >= 1
    /\ jobs[j].status \in {"running", "succeeded"}
    /\ LoopsAt(j, before \cup {"markFailed", "logFailed"}) = {}

(***************************************************************************)
(* C14: a module whose lessons step failed ends the lessons stage with     *)
(* exactly 4 lessons, of order 1..4, typed learn, practice, learn, apply,  *)
(* each of floor(timePerDay / 4) minutes.                                  *)
(***************************************************************************)
C14_FallbackLessonsExact ==
    \A j \in JobIds : \A m \in ModuleIds(j) :
        (StageEnded(j, BeforeStage3) /\ FallbackEvents(j, m, "s2warn") # {}) =>
            LET lessons == Modules(j)[m].lessons
            IN /\ Len(lessons) = 4
               /\ \A k \in 1..Len(lessons) :
                     /\ lessons[k].order = k
                     /\ lessons[k].type = <<"learn", "practice", "learn", "apply">>[k]
                     /\ lessons[k].estimatedMinutes = courses[j].timePerDay \div 4

(***************************************************************************)
(* C15: a module whose quiz step failed ends the quiz stage with exactly   *)
(* one quiz, of exactly 3 mcq questions with the options 'Option A' to     *)
(* 'Option D' and the answer key 'Option A'.                               *)
(***************************************************************************)
C15_FallbackQuizExact ==
    \A j \in JobIds : \A m \in ModuleIds(j) :
        (StageEnded(j, BeforeStage4) /\ FallbackEvents(j, m, "s3warn") # {}) =>
            LET quizzes == Modules(j)[m].quizzes
            IN /\ Len(quizzes) = 1
               /\ \A q \in 1..Len(quizzes) :
                     /\ Len(quizzes[q].questions) = 3
                     /\ \A k \in 1..Len(quizzes[q].questions) :
                           /\ quizzes[q].questions[k].type = "mcq"
                           /\ quizzes[q].questions[k].options =
                                 <<"Option A", "Option B", "Option C", "Option D">>
                           /\ quizzes[q].questions[k].answerKey = "Option A"

\* The searchVideos call failed for each of the five modules of job j.
AllSearchesFailed(j) ==
    /\ Len(CallsOf(j, "videos")) = NumModules
    /\ \A i \in 1..NumModules : ~CallsOf(j, "videos")[i].ok

(***************************************************************************)
(* C16: a module whose resources step failed has no resource and exactly   *)
(* one warn event of Stage 4; a job all of whose video searches failed     *)
(* ends succeeded, with no resource on any module and one warn event per   *)
(* module.                                                                 *)
(***************************************************************************)
C16_FailedResourcesLeaveNone ==
    \A j \in JobIds :
        /\ \A m \in ModuleIds(j) :
              FallbackEvents(j, m, "s4warn") # {} =>
                  /\ Modules(j)[m].resources = <<>>
                  /\ Cardinality(FallbackEvents(j, m, "s4warn")) = 1
        /\ (AllSearchesFailed(j) /\ jobs[j].status \in Terminal) =>
              /\ jobs[j].status = "succeeded"
              /\ \A m \in ModuleIds(j) :
                    /\ Modules(j)[m].resources = <<>>
                    /\ Cardinality(FallbackEvents(j, m, "s4warn")) = 1

\* The poll loops that have been launched and have not ended.
LiveLoops == {l \in LoopIds : loops[l].pc \notin {"none", "dead"}}

(***************************************************************************)
(* C17: start() on a started JobRunner does nothing: a poll loop is        *)
(* launched only by a step that takes isRunning from FALSE to TRUE, and    *)
(* that step launches exactly one.                                         *)
(***************************************************************************)
C17_StartIsIdempotent ==
    [][/\ (\E l \in LoopIds : loops[l].pc = "none" /\ loops'[l].pc # "none")
            => ~isRunning /\ isRunning'
       /\ (~isRunning /\ isRunning')
            => Cardinality({l \in LoopIds :
                               loops[l].pc = "none" /\ loops'[l].pc # "none"}) = 1
      ]_vars

\* C17 witness: a started runner with one live loop on which a further
\* start() could still launch another loop were it not guarded.
C17_Witness ==
    /\ isRunning
    /\ Cardinality(LiveLoops) = 1
    /\ FreeLoops # {}
    /\ budget.loops > 0

(***************************************************************************)
(* C18: once stop() has been called and start() not again (isRunning is    *)
(* FALSE), no job goes from queued to running; and stop() itself touches   *)
(* neither a job nor a loop, so a job that is running is worked on as      *)
(* before.                                                                 *)
(***************************************************************************)
C18_StopHaltsClaims ==
    [][/\ (\E j \in JobIds :
              jobs[j].status = "queued" /\ jobs'[j].status = "running")
            => isRunning
       /\ (isRunning /\ ~isRunning') => UNCHANGED <<loops, jobs, courses, events>>
      ]_vars

(***************************************************************************)
(* C19: an exception never ends a poll loop: a loop leaves processNextJob  *)
(* only into the sleep of poll(), it ends only at the while test after a   *)
(* sleep with isRunning FALSE, and after a sleep with isRunning TRUE it    *)
(* polls again.                                                            *)
(***************************************************************************)
C19_LoopSurvivesExceptions ==
    [][\A l \in LoopIds :
          /\ (Busy(l) /\ ~Busy(l)') => loops'[l].pc = "sleep"
          /\ (loops[l].pc # "dead" /\ loops'[l].pc = "dead")
                => loops[l].pc = "sleep" /\ ~isRunning
          /\ (loops[l].pc = "sleep" /\ loops'[l].pc # "sleep" /\ isRunning)
                => loops'[l].pc = "find"
      ]_vars

\* C19 witness: a job was left running by an exception of the failure
\* bookkeeping (no loop holds it any more), and a loop has claimed a later
\* job since.
C19_Witness ==
    \E a, b \in JobIds :
        /\ a # b
        /\ a \in dbFaulted
        /\ jobs[a].status = "running"
        /\ \A l \in LoopIds : loops[l].job # a
        /\ jobs[b].status = "running"
        /\ LoopsAt(b, {"load"}) # {}

(***************************************************************************)
(* The specification with its scheduling: the event loop runs every        *)
(* continuation that is ready and every timer fires, so a poll loop that   *)
(* can take a step eventually takes one.                                   *)
(***************************************************************************)
Fairness == \A l \in LoopIds : WF_vars(LoopStep(l))

FairSpec == Init /\ [][Next]_vars /\ Fairness

(***************************************************************************)
(* C20: no job is stuck: while the JobRunner is started, a queued job is   *)
(* eventually claimed and a running job eventually becomes succeeded or    *)
(* failed.                                                                 *)
(***************************************************************************)
C20_NoJobStuck ==
    \A j \in 1..MaxJobs :
        /\ (j \in JobIds /\ jobs[j].status = "queued" /\ isRunning)
              ~> (~isRunning \/ (j \in JobIds /\ jobs[j].status # "queued"))
        /\ (j \in JobIds /\ jobs[j].status = "running" /\ isRunning)
              ~> (~isRunning \/ (j \in JobIds /\ jobs[j].status \in Terminal))

\* No poll loop holds job j: every processNextJob that took it has returned.
Released(j) == \A l \in LoopIds : loops[l].job # j

(***************************************************************************)
(* C21: a terminal job that no loop works on any more has its terminal     *)
(* event: a failed job an error event of stage 'Failed' carrying the       *)
(* job's errorMessage, a succeeded job the info event of stage             *)
(* 'Completed'.                                                            *)
(***************************************************************************)
C21_TerminalEventRecorded ==
    \A j \in JobIds :
        (jobs[j].status \in Terminal /\ Released(j)) =>
            /\ jobs[j].status = "failed" =>
                  \E i \in 1..Len(events[j]) :
                      events[j][i] = Event("Failed", "error", jobs[j].errorMessage)
            /\ jobs[j].status = "succeeded" =>
                  \E i \in 1..Len(events[j]) :
                      events[j][i] = Event("Completed", "info",
                                           "Job completed successfully")

(***************************************************************************)
(* C22: the errorCode of a failed job is one of the values of ErrorCode.   *)
(***************************************************************************)
C22_ErrorCodeInTaxonomy ==
    \A j \in JobIds :
        jobs[j].status = "failed" => jobs[j].errorCode \in ErrorCode

(***************************************************************************)
(* C23: a job has a non-empty errorCode and errorMessage if and only if    *)
(* its status is failed.                                                   *)
(***************************************************************************)
C23_ErrorInfoIffFailed ==
    \A j \in JobIds :
        (jobs[j].errorCode # "" /\ jobs[j].errorMessage # "")
            <=> jobs[j].status = "failed"

\* The place of an event's stage label in a run: the five stages in order,
\* then the terminal events.
EventStageIndex(stage) ==
    CASE stage = "Stage 1" -> 1
      [] stage = "Stage 2" -> 2
      [] stage = "Stage 3" -> 3
      [] stage = "Stage 4" -> 4
      [] stage = "Stage 5" -> 5
      [] OTHER -> 6

\* Job j has an event labelled with stage n among its first k events.
StageLogged(j, n, k) ==
    \E a \in 1..k : EventStageIndex(events[j][a].stage) = n

\* The events of job j are in stage order, and an event of a stage (or the
\* 'Completed' event) is preceded by an event of every earlier stage.
EventsInStageOrder(j) ==
    \A b \in 1..Len(events[j]) :
        LET n == EventStageIndex(events[j][b].stage)
        IN /\ \A a \in 1..(b - 1) : EventStageIndex(events[j][a].stage) <= n
           /\ events[j][b].stage # "Failed" =>
                 \A m \in 1..(n - 1) : StageLogged(j, m, b - 1)

\* A job whose label shows stage n has an event of every earlier stage.
EarlierStagesLogged(j) ==
    \A n \in 2..5 :
        jobs[j].currentStage \in StageLabels(n) =>
            \A m \in 1..(n - 1) : StageLogged(j, m, Len(events[j]))

\* Job j has the given warn event of Stage 1.
SkeletonWarned(j, message) ==
    \E a \in 1..Len(events[j]) : events[j][a] = Event("Stage 1", "warn", message)

\* A step of loop l that makes the retry or the fallback skeleton call, or
\* that writes fallback lessons or a fallback quiz, finds the warn event of
\* that decision in the log.
FallbackLoggedFirst(l) ==
    LET j == loops[l].job
    IN /\ (loops[l].pc = "s1retry" /\ calls' # calls)
              => SkeletonWarned(j, "LLM failed, attempting repair")
       /\ (loops[l].pc = "s1mock" /\ calls' # calls)
              => SkeletonWarned(j, "Using fallback generator")
       /\ (loops[l].pc = "s2fb" /\ courses' # courses)
              => FallbackEvents(j, CurModule(l), "s2warn") # {}
       /\ (loops[l].pc = "s3fb" /\ courses' # courses)
              => FallbackEvents(j, CurModule(l), "s3warn") # {}

\* A step of loop l that obtains the skeleton (and goes on to save its
\* modules) leaves an info event of that success in the log.
SkeletonSuccessLogged(l) ==
    (loops[l].pc # "s1save" /\ loops'[l].pc = "s1save") =>
        \E a \in 1..Len(events'[loops'[l].job]) :
            /\ events'[loops'[l].job][a].stage = "Stage 1"
            /\ events'[loops'[l].job][a].level = "info"
            /\ events'[loops'[l].job][a].message
                  \in {"Course skeleton generated", "Repair succeeded"}

(***************************************************************************)
(* C24: the event log tells the run: the events of a course job are in     *)
(* stage order with none left out, one that shows a stage has an event of  *)
(* every earlier stage, every fallback decision is logged at warn before   *)
(* the retry is made or the fallback content is written, and the skeleton  *)
(* step that succeeded is logged at info.                                  *)
(***************************************************************************)
C24_EventLogReconstructsRun ==
    [][/\ \A j \in CourseJobs : EventsInStageOrder(j)' /\ EarlierStagesLogged(j)'
       /\ \A l \in LoopIds : FallbackLoggedFirst(l) /\ SkeletonSuccessLogged(l)
      ]_vars

\* The sequence new is old with rows appended: no row of old is deleted,
\* changed or moved.
Extends(old, new) ==
    /\ Len(old) <= Len(new)
    /\ SubSeq(new, 1, Len(old)) = old

(***************************************************************************)
(* C25: the course is only appended to: in every step the modules of a     *)
(* course, and the lessons, quizzes (with their questions) and resources   *)
(* of every module, are what they were with rows added at the end.         *)
(***************************************************************************)
C25_CourseOnlyAppended ==
    [][\A j \in JobIds :
          /\ Len(Modules(j)) <= Len(courses'[j].modules)
          /\ \A m \in ModuleIds(j) :
                /\ courses'[j].modules[m].order = Modules(j)[m].order
                /\ Extends(Modules(j)[m].lessons, courses'[j].modules[m].lessons)
                /\ Extends(Modules(j)[m].quizzes, courses'[j].modules[m].quizzes)
                /\ Extends(Modules(j)[m].resources,
                           courses'[j].modules[m].resources)
      ]_vars

\* C25 witness: the fallback lessons of a module were written after rows of
\* the generated lessons, which are still there.
C25_Witness ==
    \E j \in JobIds : \E m \in ModuleIds(j) :
        /\ FallbackEvents(j, m, "s2warn") # {}
        /\ Len(Modules(j)[m].lessons) > FallbackLessons
        /\ Modules(j)[m].lessons[1] = GeneratedLesson(1)

\* The submissions with key k that were answered with a job, and those of
\* them that created it.
Answered(k) ==
    {a \in 1..Len(replies) :
        replies[a].request.idempotencyKey = k /\ replies[a].outcome # "rejected"}
Created(k) == {a \in Answered(k) : replies[a].outcome = "created"}

C27_InvalidSubmissionRejected ==
    [][Len(replies') > Len(replies) =>
          LET r == replies'[Len(replies')]
          IN (r.request.timePerDay \notin 5..480 \/ r.request.topic \notin 3..200) =>
                /\ r.outcome = "rejected"
                /\ r.code = "VALIDATION_ERROR"
                /\ UNCHANGED <<jobs, courses, idempotencyKeys>>
      ]_vars

\* C27 witness: a submission with a valid topic and a timePerDay below the
\* minimum was rejected, after one that had created a job.
C27_Witness ==
    \E a, b \in 1..Len(replies) :
        /\ a < b
        /\ replies[a].outcome = "created"
        /\ replies[b].outcome = "rejected"
        /\ replies[b].request.timePerDay < 5
        /\ replies[b].request.topic \in 3..200
        /\ Len(jobs) = 1

\* The questions of quiz q of module m of job j.
QuestionsOf(j, m, q) == Modules(j)[m].quizzes[q].questions

(***************************************************************************)
(* C28: every mcq question persisted for a course has at least 2 options   *)
(* and an answer key that is one of its options.                           *)
(***************************************************************************)
C28_McqWellFormed ==
    \A j \in JobIds : \A m \in ModuleIds(j) :
        \A q \in 1..Len(Modules(j)[m].quizzes) :
            \A k \in 1..Len(QuestionsOf(j, m, q)) :
                LET question == QuestionsOf(j, m, q)[k]
                IN question.type = "mcq" =>
                      /\ Len(question.options) >= 2
                      /\ \E i \in 1..Len(question.options) :
                            question.options[i] = question.answerKey

\* C28 witness: a course holds a provider-generated mcq question and a
\* fallback question.
C28_Witness ==
    \E j \in JobIds :
        /\ \E m \in ModuleIds(j) : \E q \in 1..Len(Modules(j)[m].quizzes) :
              \E k \in 1..Len(QuestionsOf(j, m, q)) :
                  /\ QuestionsOf(j, m, q)[k].type = "mcq"
                  /\ QuestionsOf(j, m, q)[k] = GeneratedQuestion(k)
        /\ \E m \in ModuleIds(j) : \E q \in 1..Len(Modules(j)[m].quizzes) :
              \E k \in 1..Len(QuestionsOf(j, m, q)) :
                  QuestionsOf(j, m, q)[k] = FallbackQuestion(k)

(***************************************************************************)
(* C29: every lesson persisted for a course has an estimatedMinutes        *)
(* between 1 and 60.                                                       *)
(***************************************************************************)
C29_LessonMinutesInRange ==
    \A j \in JobIds : \A m \in ModuleIds(j) :
        \A k \in 1..Len(Modules(j)[m].lessons) :
            Modules(j)[m].lessons[k].estimatedMinutes \in 1..60

(***************************************************************************)
(* C30: a job gets at most three generateCourseSkeleton attempts; the      *)
(* first two go to the configured provider, the second is made only after  *)
(* the first failed, the third only after the second failed, and the       *)
(* third goes to the mock provider.                                        *)
(***************************************************************************)
C30_SkeletonAttempts ==
    \A j \in JobIds :
        LET sk == CallsOf(j, "skeleton")
        IN /\ Len(sk) <= 3
           /\ \A i \in 1..Len(sk) : i <= 2 => sk[i].mock = LLMIsMock
           /\ Len(sk) >= 2 => ~sk[1].ok
           /\ Len(sk) >= 3 => ~sk[2].ok /\ sk[3].mock

\* The resources step of job j has been through module m: its searchVideos
\* call has been made.
ResourcesStepDone(j, m) ==
    \E i \in 1..Len(calls[j]) :
        calls[j][i].op = "videos" /\ calls[j][i].module = m

(***************************************************************************)
(* C31: the upper bound of a per-module stage is shown only after the      *)
(* stage's work is done for every module: a job with progressPercent >= 40 *)
(* has lessons on every module, one with >= 70 has a quiz on every module, *)
(* and one with >= 95 has had the resources step run for every module.     *)
(***************************************************************************)
C31_StageBoundAfterWork ==
    \A j \in JobIds : \A m \in ModuleIds(j) :
        /\ jobs[j].progressPercent >= 40 => Modules(j)[m].lessons # <<>>
        /\ jobs[j].progressPercent >= 70 => Modules(j)[m].quizzes # <<>>
        /\ jobs[j].progressPercent >= 95 => ResourcesStepDone(j, m)

\* The poll loops that have claimed job j (their update to running went
\* through) and have not yet left processNextJob.
Claimants(j) == {l \in LoopIds : loops[l].job = j /\ loops[l].pc \notin {"find", "claim"}}

(***************************************************************************)
(* C32: the claim of a queued job is atomic: only a queued job is set      *)
(* running, at most one poll loop holds a claimed job, the pipeline is     *)
(* executed at most once per job, and no course holds the modules of two   *)
(* runs.                                                                   *)
(***************************************************************************)
C32_ClaimedAtMostOnce ==
    [][\A j \in JobIds :
          /\ (\E l \in LoopIds : loops[l].pc = "claim" /\ loops[l].job = j
                                    /\ loops'[l].pc = "load")
                => jobs[j].status = "queued"
          /\ Cardinality(Claimants(j)') <= 1
          /\ runs'[j] <= 1
          /\ Len(courses'[j].modules) <= NumModules
      ]_vars

(***************************************************************************)
(* C33: after any sequence of start() and stop() calls at most one poll    *)
(* loop is live (launched and not ended).                                  *)
(***************************************************************************)
C33_AtMostOneLiveLoop == Cardinality(LiveLoops) <= 1

\* A step that marks the course of job j active is the Stage 5 update of a
\* loop that runs job j.
ActivatedByOwnStage5(j) ==
    (courses[j].status # "active" /\ courses'[j].status = "active") =>
        \E l \in LoopIds :
            /\ loops[l].job = j
            /\ loops[l].pc = "s5activate"
            /\ loops'[l].pc = "s5p100"

\* A succeeded generate-course job has an active course.
SucceededHasActiveCourse(j) ==
    (jobs[j].type = "GENERATE_COURSE" /\ jobs[j].status = "succeeded")
        => courses[j].status = "active"

\* A failed job does not have an active course.
FailedHasNoActiveCourse(j) ==
    jobs[j].status = "failed" => courses[j].status # "active"

(***************************************************************************)
(* C34: a course is marked active only by Stage 5 of its own job, a        *)
(* succeeded generate-course job has an active course, and a failed job    *)
(* does not have an active course.                                         *)
(***************************************************************************)
C34_ActiveIffSucceeded ==
    [][\A j \in JobIds :
          /\ ActivatedByOwnStage5(j)
          /\ SucceededHasActiveCourse(j)'
          /\ FailedHasNoActiveCourse(j)'
      ]_vars

\* Job k, its event log and its course are what they were.
Untouched(k) ==
    /\ jobs'[k] = jobs[k]
    /\ events'[k] = events[k]
    /\ courses'[k] = courses[k]

(***************************************************************************)
(* C35: processing one job leaves every other job untouched: a step of a   *)
(* poll loop changes the row, the event log and the course of no job       *)
(* other than the one the loop holds.                                      *)
(***************************************************************************)
C35_OtherJobsUntouched ==
    [][\A l \in LoopIds :
          loops'[l] # loops[l] =>
              \A k \in JobIds : k # loops[l].job => Untouched(k)
      ]_vars

\* C35 witness: two jobs are in their pipelines at the same time, each held
\* by its own poll loop.
C35_Witness ==
    \E a, b \in JobIds :
        /\ a # b
        /\ jobs[a].status = "running" /\ jobs[a].progressPercent >= 10
        /\ jobs[b].status = "running" /\ jobs[b].progressPercent >= 10
        /\ jobs[a].currentStage # jobs[b].currentStage
        /\ Claimants(a) # {} /\ Claimants(b) # {}

(***************************************************************************)
(* C36: the transition to failed leaves progressPercent and currentStage   *)
(* unchanged: the step that sets a job failed writes neither, so the job   *)
(* shows the last value and label written before the failure.              *)
(***************************************************************************)
C36_FailureKeepsProgress ==
    [][\A j \in JobIds :
          (jobs[j].status # "failed" /\ jobs'[j].status = "failed") =>
              /\ jobs'[j].progressPercent = jobs[j].progressPercent
              /\ jobs'[j].currentStage = jobs[j].currentStage
      ]_vars

\* C36 witness: a job failed in the middle of a later stage and shows the
\* progress and the label of that stage.
C36_Witness ==
    \E j \in JobIds : \E n \in 2..5 :
        /\ jobs[j].status = "failed"
        /\ jobs[j].currentStage \in StageLabels(n)
        /\ jobs[j].progressPercent \in StageRange[n]
        /\ jobs[j].progressPercent \notin {0, 100}

\* The positions of a loop in processNextJob outside executeGenerateCourse.
OutsidePipeline ==
    {"claim", "load", "markSucceeded", "logCompleted", "markFailed", "logFailed"}

(***************************************************************************)
(* C37: a job whose type is not GENERATE_COURSE goes through no stage: no  *)
(* pipeline is run and no provider is called for it, a loop that holds it  *)
(* is in processNextJob outside executeGenerateCourse, its course gets no  *)
(* module and is not marked active, its events are the terminal ones, it   *)
(* ends succeeded unless a database write threw, and succeeded it has      *)
(* progressPercent 100.                                                    *)
(***************************************************************************)
C37_OtherTypesSkipPipeline ==
    \A j \in JobIds :
        jobs[j].type # "GENERATE_COURSE" =>
            /\ runs[j] = 0
            /\ calls[j] = <<>>
            /\ \A l \in LoopIds : loops[l].job = j => loops[l].pc \in OutsidePipeline
            /\ courses[j].modules = <<>>
            /\ courses[j].status # "active"
            /\ \A i \in 1..Len(events[j]) :
                  events[j][i].stage \in {"Completed", "Failed"}
            /\ (jobs[j].status \in Terminal /\ j \notin dbFaulted)
                  => jobs[j].status = "succeeded"
            /\ jobs[j].status = "succeeded" =>
                  /\ jobs[j].progressPercent = 100
                  /\ jobs[j].currentStage = "Completed"

\* C37 witness: a job of another type has been claimed and is succeeded at
\* 100 with its 'Completed' event, its processNextJob having returned.
C37_Witness ==
    \E j \in JobIds :
        /\ jobs[j].type # "GENERATE_COURSE"
        /\ jobs[j].status = "succeeded"
        /\ jobs[j].progressPercent = 100
        /\ HasEvent(j, "Completed", "info")
        /\ Released(j)

\* The poll loops a step launches.
Launched == {l \in LoopIds : loops[l].pc = "none" /\ loops'[l].pc # "none"}

(***************************************************************************)
(* C38: getJobRunner returns the same JobRunner on every call and starts   *)
(* it exactly once: all calls have returned one and the same object, the   *)
(* first call constructs it and launches exactly one poll loop, and a      *)
(* later call constructs nothing and launches nothing.                     *)
(***************************************************************************)
C38_SingletonStartedOnce ==
    [][/\ \A a, b \in 1..Len(returned') :
             returned'[a] = returned'[b] /\ returned'[a] = jobRunnerInstance'
       /\ Len(returned') > Len(returned) =>
             IF Len(returned) = 0
             THEN /\ jobRunnerInstance = 0 /\ jobRunnerInstance' # 0
                  /\ Cardinality(Launched) = 1
                  /\ isRunning'
             ELSE UNCHANGED <<jobRunnerInstance, isRunning, loops>>
       /\ Len(returned') = Len(returned) => UNCHANGED jobRunnerInstance
      ]_vars

\* C38 witness: getJobRunner() has been called more than once; one poll
\* loop is live, and a further loop could still have been launched.
C38_Witness ==
    /\ Len(returned) >= 2
    /\ isRunning
    /\ Cardinality(LiveLoops) = 1
    /\ FreeLoops # {}
    /\ budget.loops > 0

====
